---- MODULE Spec2Model ----
(***************************************************************************)
(* Vantage dashboard (src/main.py, src/helpers.py): a single-process       *)
(* FastAPI application keeping one session and its caches in module        *)
(* globals.  The handlers POST /authenticate, POST /transactions,          *)
(* POST /logout and GET / are modelled with the vendor server as a         *)
(* nondeterministic environment (Spec).  GET /export.csv, which            *)
(* src/main.py no longer has, is taken from the latest version that has    *)
(* it, src/backup_09092025T015000/main.py (SpecItems).  GET /skills is     *)
(* modelled as src/backup_01092025T041900/main.py has it, together with    *)
(* the login of that version (SpecOld).  The helpers of src/helpers.py     *)
(* and the pieces of src/main.py that build a message or a table cell are  *)
(* also run on their own (SpecRows, SpecDates, SpecDetail, SpecFile).      *)
(* SpecThreads follows two requests served at the same time, statement by  *)
(* statement.                                                              *)
(*                                                                         *)
(* Lists of transaction items are kept run-length encoded: a run           *)
(* [transactionId, pageCount, n] stands for n consecutive list elements    *)
(* that agree on the fields the handlers read, so that a page of 1000      *)
(* items is one value.  len() of a list is the sum of the n of its runs.   *)
(***************************************************************************)
EXTENDS Integers, Sequences, FiniteSets, TLC

\* ---------------------------------------------------------------- bounds
\* page requests one POST /transactions may issue before the model stops
\* following it (the loop itself has no such limit)
MaxPages == 3

\* ------------------------------------------------------- python values
\* Python's None
NONE == "<None>"
\* a key that is absent from a dict
MISSING == "<missing>"

\* bool(x) for the str-or-None values the handlers test
Truthy(x) == x \notin {NONE, ""}

\* str.strip() on the strings that occur in the model
Strip(s) ==
  CASE s = " us " -> "us"
    [] s = " " -> ""
    [] s = " Yes " -> "Yes"
    [] s = " Invoice " -> "Invoice"
    [] OTHER -> s

\* str.lower() on the strings that occur in the model
Lower(s) ==
  CASE s = "Yes" -> "yes"
    [] s = "TRUE" -> "true"
    [] s = "None" -> "none"
    [] OTHER -> s

\* JSON values of the pageCount member of an item: an integer, null, a
\* string that is no number, or no such member at all
JInt(v) == [t |-> "int", v |-> v]
JNull == [t |-> "null", v |-> 0]
JText == [t |-> "str", v |-> 0]
JMissing == [t |-> "missing", v |-> 0]

\* dict helpers
EmptyDict == << >>
DictGet(d, k, default) == IF k \in DOMAIN d THEN d[k] ELSE default
DictPut(d, k, v) == [x \in (DOMAIN d) \cup {k} |-> IF x = k THEN v ELSE d[x]]

\* ------------------------------------------------------ module globals
VARIABLES
  bearer_token,        \* main.py:16
  vantage_host,        \* main.py:17
  skills_cache,        \* main.py:18
  transactions_cache,  \* main.py:19
  review_summary,      \* main.py:20
  docskill_summary,    \* main.py:21
  last_error,          \* main.py:22
  search_attempted,    \* main.py:23
  \* locals of the POST /transactions handler that is running
  pc,                  \* "idle" or "loop" (inside the while loop of main.py:421)
  transaction_type,
  offset,
  total_items_fetched,
  total_item_count,
  items_all,
  \* what the last handler did, as seen from outside
  handler,             \* name of the handler that ran last (or is running)
  response,            \* its HTTP response: "303", "500", "login", "results", "" while running
  log,                 \* the vendor requests it issued, with their answers
  body,                \* the body of the last text/csv response
  helper_call,         \* a helper of helpers.py called on its own: arguments and result
  threads              \* handlers running at the same time on threads of the pool

globals == <<bearer_token, vantage_host, skills_cache, transactions_cache,
             review_summary, docskill_summary, last_error, search_attempted>>
locals == <<pc, transaction_type, offset, total_items_fetched, total_item_count, items_all>>
vars == <<bearer_token, vantage_host, skills_cache, transactions_cache,
          review_summary, docskill_summary, last_error, search_attempted,
          pc, transaction_type, offset, total_items_fetched, total_item_count, items_all,
          handler, response, log, body, helper_call, threads>>

\* what the handlers of main.py never touch
aux == <<body, helper_call, threads>>

NoBody == << >>
NoCall == [fn |-> "none"]
NoThreads == << >>

ZeroSummary == [with_manual_review |-> 0, straight_through |-> 0]

Init ==
  /\ bearer_token = NONE
  /\ vantage_host = NONE
  /\ skills_cache = << >>
  /\ transactions_cache = << >>
  /\ review_summary = ZeroSummary
  /\ docskill_summary = EmptyDict
  /\ last_error = ""
  /\ search_attempted = FALSE
  /\ pc = "idle"
  /\ transaction_type = ""
  /\ offset = 0
  /\ total_items_fetched = 0
  /\ total_item_count = 0
  /\ items_all = << >>
  /\ handler = "none"
  /\ response = ""
  /\ log = << >>
  /\ body = NoBody
  /\ helper_call = NoCall
  /\ threads = NoThreads

\* one entry of the request log
Request(endpoint, host, token, off, status, result, n, total, items) ==
  [endpoint |-> endpoint, host |-> host, token |-> token, offset |-> off,
   status |-> status, result |-> result, n |-> n, total |-> total, items |-> items]

\* ------------------------------------------------------- vendor server
\* form field url of POST /authenticate
Urls == {"", "au", " us "}

\* answers of POST https://{host}/auth2/connect/token.  raises: requests.post
\* raised a RequestException; json_ok: the body parses as a JSON object;
\* access_token: its access_token member, NONE when it has none.
TokenResponses ==
  { [raises |-> TRUE, status_code |-> 0, json_ok |-> FALSE, access_token |-> NONE],
    [raises |-> FALSE, status_code |-> 401, json_ok |-> TRUE, access_token |-> NONE],
    [raises |-> FALSE, status_code |-> 200, json_ok |-> FALSE, access_token |-> NONE] }
  \cup
  { [raises |-> FALSE, status_code |-> 200, json_ok |-> TRUE, access_token |-> t] :
      t \in {NONE, "", "tokA"} }

\* requests refuses a URL without a host (InvalidURL, a RequestException)
TokenResponsesFor(host) ==
  IF host = "" THEN {r \in TokenResponses : r.raises} ELSE TokenResponses

SkillLists ==
  { << >>, << [id |-> "s1", name |-> "Invoices", type |-> "Process"] >> }

\* answers of GET https://{host}/api/publicapi/v1/skills
SkillsResponses ==
  { [raises |-> TRUE, status_code |-> 0, json |-> << >>],
    [raises |-> FALSE, status_code |-> 500, json |-> << >>] }
  \cup
  { [raises |-> FALSE, status_code |-> 200, json |-> l] : l \in SkillLists }

\* Response.raise_for_status(): HTTPError for 4xx and 5xx
RaiseForStatus(r) == r.status_code >= 400

\* ------------------------------------------------------------- GET /
\* main.py:50-347, reduced to what decides the rendered page
dashboard ==
  IF ~Truthy(bearer_token)
    THEN [view |-> "login", error_banner |-> (last_error # ""), no_results_banner |-> FALSE]
    ELSE IF \E i \in 1..Len(transactions_cache) : transactions_cache[i].pageCount.t = "str"
      THEN \* main.py:130, int() raises ValueError
           [view |-> "500", error_banner |-> FALSE, no_results_banner |-> FALSE]
      ELSE [view |-> "results", error_banner |-> (last_error # ""),
            no_results_banner |-> (transactions_cache = << >> /\ search_attempted)]

GetDashboard ==
  /\ pc = "idle"
  /\ handler' = "dashboard"
  /\ response' = dashboard.view
  /\ log' = << >>
  /\ UNCHANGED <<globals, locals, aux>>

\* ------------------------------------------------- POST /authenticate
\* main.py:352-398
authenticate(url, tr, sr) ==
  LET host == Strip(url)
      tokenReq(res) == Request("token", host, NONE, 0, NONE, res, 0, 0, << >>)
      skillsReq(tok, res) == Request("skills", host, tok, 0, NONE, res, 0, 0,
                                     IF res = "ok" THEN sr.json ELSE << >>)
  IN
  /\ pc = "idle"
  /\ handler' = "authenticate"
  /\ vantage_host' = host
  /\ search_attempted' = FALSE
  /\ UNCHANGED <<transactions_cache, review_summary, docskill_summary, locals>>
  /\ IF tr.raises \/ tr.status_code # 200
       THEN \* main.py:371-381
            /\ last_error' = "Login Failed. Error: ..."
            /\ log' = << tokenReq(IF tr.raises THEN "raise" ELSE "http_error") >>
            /\ response' = "303"
            /\ UNCHANGED <<bearer_token, skills_cache>>
       ELSE IF ~tr.json_ok
         THEN \* main.py:383, r.json() raises outside the try block
              /\ last_error' = ""
              /\ log' = << tokenReq("ok") >>
              /\ response' = "500"
              /\ UNCHANGED <<bearer_token, skills_cache>>
         ELSE \* main.py:383-398
              /\ bearer_token' = tr.access_token
              /\ response' = "303"
              /\ IF sr.raises \/ RaiseForStatus(sr)
                   THEN /\ skills_cache' = << >>
                        /\ last_error' = "Failed to load skills: ..."
                        /\ log' = << tokenReq("ok"),
                                     skillsReq(tr.access_token,
                                               IF sr.raises THEN "raise" ELSE "http_error") >>
                   ELSE /\ skills_cache' = sr.json
                        /\ last_error' = ""
                        /\ log' = << tokenReq("ok"), skillsReq(tr.access_token, "ok") >>

\* the skills request is made only after a token response that parses
\* (main.py:383-389); without a request its answer plays no part
SkillsResponsesAfter(tr) ==
  IF tr.raises \/ tr.status_code # 200 \/ ~tr.json_ok
    THEN { CHOOSE sr \in SkillsResponses : sr.raises }
    ELSE SkillsResponses

Authenticate ==
  /\ UNCHANGED aux
  /\ \E url \in Urls : \E tr \in TokenResponsesFor(Strip(url)) :
       \E sr \in SkillsResponsesAfter(tr) : authenticate(url, tr, sr)

\* ------------------------------------------------------- POST /logout
\* logout as it was before docskill_summary was introduced
logout_without_docskill ==
  /\ pc = "idle"
  /\ bearer_token' = NONE
  /\ vantage_host' = NONE
  /\ skills_cache' = << >>
  /\ transactions_cache' = << >>
  /\ review_summary' = ZeroSummary
  /\ last_error' = ""
  /\ search_attempted' = FALSE
  /\ handler' = "logout"
  /\ response' = "303"
  /\ log' = << >>
  /\ UNCHANGED <<docskill_summary, locals>>

\* main.py:485-495
logout ==
  /\ pc = "idle"
  /\ bearer_token' = NONE
  /\ vantage_host' = NONE
  /\ skills_cache' = << >>
  /\ transactions_cache' = << >>
  /\ review_summary' = ZeroSummary
  /\ docskill_summary' = EmptyDict
  /\ last_error' = ""
  /\ search_attempted' = FALSE
  /\ handler' = "logout"
  /\ response' = "303"
  /\ log' = << >>
  /\ UNCHANGED locals

\* ---------------------------------------------------- POST /transactions
\* main.py:417
Limit == 1000

\* form field transaction_type
TransactionTypes == {"All", "Processed"}

\* raw transaction items of the vendor
ItemA == [transactionId |-> "T1", pageCount |-> JInt(2)]
ItemB == [transactionId |-> "T2", pageCount |-> JInt(3)]

Run(item, n) == [transactionId |-> item.transactionId, pageCount |-> item.pageCount, n |-> n]

\* the "items" member of a page: empty, a full page, half a page
PageItems == { << >>, << Run(ItemA, Limit) >>, << Run(ItemB, Limit \div 2) >> }

\* the "totalItemCount" member of a page
Totals == {0, 2500}

\* len() of a run-length encoded list
RECURSIVE ListLen(_)
ListLen(l) == IF l = << >> THEN 0 ELSE Head(l).n + ListLen(Tail(l))

\* answers of GET .../api/publicapi/v1/transactions/completed.  json is the
\* parsed body, a dict that may lack either member.
PageResponses ==
  { [raises |-> TRUE, status_code |-> 0, json_ok |-> FALSE, json |-> << >>],
    [raises |-> FALSE, status_code |-> 500, json_ok |-> FALSE, json |-> << >>],
    [raises |-> FALSE, status_code |-> 200, json_ok |-> FALSE, json |-> << >>],
    [raises |-> FALSE, status_code |-> 200, json_ok |-> TRUE, json |-> << >>] }
  \cup
  { [raises |-> FALSE, status_code |-> 200, json_ok |-> TRUE,
     json |-> [items |-> it, totalItemCount |-> t]] : it \in PageItems, t \in Totals }

\* rows of the review report as csv.DictReader yields them: a column the
\* header lacks is MISSING, a column the line is too short for is NONE
RowReviewed == [TransactionId |-> "T1", HasManualReview |-> " Yes ", DocumentSkillName |-> " Invoice "]
RowPlain == [TransactionId |-> "T2", HasManualReview |-> "false", DocumentSkillName |-> ""]
RowShort == [TransactionId |-> "T1", HasManualReview |-> NONE, DocumentSkillName |-> NONE]
RowOther == [TransactionId |-> MISSING, HasManualReview |-> MISSING, DocumentSkillName |-> MISSING]

\* CSV bodies: header only; well-formed rows; a line cut short after the
\* first column; text that is no review report at all
ReviewBodies ==
  { << >>, << RowReviewed >>, << RowPlain >>, << RowReviewed, RowPlain >>,
    << RowShort >>, << RowReviewed, RowShort >>, << RowOther >> }

\* a body that is not a well-formed review report: a line too short for
\* the header, or a header without the report's columns
Malformed(rows) ==
  \E i \in 1..Len(rows) :
    \E c \in {"TransactionId", "HasManualReview", "DocumentSkillName"} :
      rows[i][c] \in {NONE, MISSING}

\* answers of GET .../api/reporting/v1/qa/process-skills/documents.
\* text_empty: r.text is ""; rows: the rows DictReader reads from r.text
ReviewResponses ==
  { [raises |-> TRUE, status_code |-> 0, text_empty |-> TRUE, rows |-> << >>],
    [raises |-> FALSE, status_code |-> 500, text_empty |-> FALSE, rows |-> << >>],
    [raises |-> FALSE, status_code |-> 200, text_empty |-> TRUE, rows |-> << >>] }
  \cup
  { [raises |-> FALSE, status_code |-> 200, text_empty |-> FALSE, rows |-> b] :
      b \in ReviewBodies }

\* row.get(key, "")
RowGet(row, key) == IF row[key] = MISSING THEN "" ELSE row[key]

\* str(x)
Str(x) == IF x = NONE THEN "None" ELSE x

\* the entry taken from the row alone: the flag of the row replaces the flag
\* recorded so far
MergeEntry_overwriting(entry, has_mr, dskill) ==
  [manual_review |-> has_mr,
   document_skill_name |-> IF dskill # "" THEN dskill ELSE entry.document_skill_name]

\* the name of the row replaces the name recorded so far, empty or not
MergeEntry_name_erased(entry, has_mr, dskill) ==
  [manual_review |-> (entry.manual_review \/ has_mr), document_skill_name |-> dskill]

\* helpers.py:73-76, the entry of a transaction id after one more of its rows
MergeEntry(entry, has_mr, dskill) ==
  [manual_review |-> (entry.manual_review \/ has_mr),
   document_skill_name |-> IF dskill # "" THEN dskill ELSE entry.document_skill_name]

\* helpers.py:59-77, the loop over the rows from row i on.  exc: a row made
\* None.strip() raise AttributeError
RECURSIVE ParseRows(_, _, _)
ParseRows(rows, i, result) ==
  IF i > Len(rows) THEN [exc |-> FALSE, map |-> result]
  ELSE
    LET row == rows[i]
        txid_raw == RowGet(row, "TransactionId")
        dskill_raw == RowGet(row, "DocumentSkillName")
    IN
    IF txid_raw = NONE THEN [exc |-> TRUE, map |-> EmptyDict]
    ELSE IF Strip(txid_raw) = "" THEN ParseRows(rows, i + 1, result)
    ELSE IF dskill_raw = NONE THEN [exc |-> TRUE, map |-> EmptyDict]
    ELSE
      LET txid == Strip(txid_raw)
          has_mr == Lower(Strip(Str(RowGet(row, "HasManualReview")))) \in {"true", "1", "yes"}
          dskill == Strip(dskill_raw)
          entry == DictGet(result, txid, [manual_review |-> FALSE, document_skill_name |-> ""])
      IN ParseRows(rows, i + 1, DictPut(result, txid, MergeEntry(entry, has_mr, dskill)))

\* helpers.py:30-80 after the request returned r
fetch_tx_review_and_docskill(r) ==
  IF r.status_code # 200 \/ r.text_empty
    THEN [exc |-> FALSE, map |-> EmptyDict]
    ELSE ParseRows(r.rows, 1, EmptyDict)

\* int(row.get("pageCount") or 0).  exc: int() raises ValueError
PageCountInt(row) ==
  CASE row.pageCount.t = "int" -> [exc |-> FALSE, v |-> row.pageCount.v]
    [] row.pageCount.t = "str" -> [exc |-> TRUE, v |-> 0]
    [] OTHER -> [exc |-> FALSE, v |-> 0]

\* main.py:452-471, the loop over items_all from run i on
RECURSIVE Aggregate(_, _, _, _)
Aggregate(items, i, tx_info_map, acc) ==
  IF i > Len(items) \/ acc.exc THEN acc
  ELSE
    LET row == items[i]
        txid == row.transactionId
        has_info == txid \in DOMAIN tx_info_map
        mr == IF has_info /\ tx_info_map[txid].manual_review THEN "Yes" ELSE "No"
        dskill == IF has_info THEN tx_info_map[txid].document_skill_name ELSE ""
        row2 == [transactionId |-> txid, pageCount |-> row.pageCount, n |-> row.n,
                 manualReview |-> mr, documentSkillName |-> dskill]
    IN Aggregate(items, i + 1, tx_info_map,
         [exc |-> (dskill # "" /\ PageCountInt(row).exc),
          rows |-> Append(acc.rows, row2),
          with_mr |-> IF mr = "Yes" THEN acc.with_mr + row.n ELSE acc.with_mr,
          straight |-> IF mr = "Yes" THEN acc.straight ELSE acc.straight + row.n,
          pages_by_docskill |->
            IF dskill # ""
              THEN DictPut(acc.pages_by_docskill, dskill,
                     DictGet(acc.pages_by_docskill, dskill, 0) + row.n * PageCountInt(row).v)
              ELSE acc.pages_by_docskill,
          txcount_by_docskill |->
            IF dskill # ""
              THEN DictPut(acc.txcount_by_docskill, dskill,
                     DictGet(acc.txcount_by_docskill, dskill, 0) + row.n)
              ELSE acc.txcount_by_docskill])

\* the accumulators carried over from the previous fetch instead of reset
AggregateStart_carried_over ==
  [exc |-> FALSE, rows |-> transactions_cache,
   with_mr |-> review_summary.with_manual_review,
   straight |-> review_summary.straight_through,
   pages_by_docskill |-> [k \in DOMAIN docskill_summary |-> docskill_summary[k].pages],
   txcount_by_docskill |-> [k \in DOMAIN docskill_summary |-> docskill_summary[k].txcount]]

\* main.py:452-453 and 419
AggregateStart ==
  [exc |-> FALSE, rows |-> << >>, with_mr |-> 0, straight |-> 0,
   pages_by_docskill |-> EmptyDict, txcount_by_docskill |-> EmptyDict]

\* the handler's locals once it has returned
LocalsGone ==
  /\ pc' = "idle"
  /\ transaction_type' = ""
  /\ offset' = 0
  /\ total_items_fetched' = 0
  /\ total_item_count' = 0
  /\ items_all' = << >>

\* main.py:403-419.  start_date and end_date are taken to be valid ISO dates
\* (to_utc_iso raises otherwise); skill_id and the dates only travel into
\* the request parameters.
get_transactions_enter(ttype) ==
  /\ pc = "idle"
  /\ handler' = "transactions"
  /\ log' = << >>
  /\ IF ~Truthy(bearer_token) \/ ~Truthy(vantage_host)
       THEN /\ response' = "303"
            /\ UNCHANGED <<globals, locals>>
       ELSE /\ response' = ""
            /\ last_error' = ""
            /\ search_attempted' = TRUE
            /\ pc' = "loop"
            /\ transaction_type' = ttype
            /\ offset' = 0
            /\ total_items_fetched' = 0
            /\ total_item_count' = 1
            /\ items_all' = << >>
            /\ UNCHANGED <<bearer_token, vantage_host, skills_cache, transactions_cache,
                           review_summary, docskill_summary>>

\* the loop condition with the comparison off by one
LoopCond_inclusive(fetched, total) == fetched <= total

\* main.py:421, the loop condition
LoopCond(fetched, total) == fetched < total

\* main.py:421-445, one iteration of the while loop
get_transactions_page(r) ==
  LET req(res, total, items) ==
        Request("transactions", vantage_host, bearer_token, offset, transaction_type,
                res, ListLen(items), total, items)
  IN
  /\ pc = "loop"
  /\ LoopCond(total_items_fetched, total_item_count)
  /\ Len(log) < MaxPages
  /\ UNCHANGED <<handler, bearer_token, vantage_host, skills_cache, review_summary,
                 docskill_summary, search_attempted>>
  /\ IF r.raises \/ RaiseForStatus(r)
       THEN \* main.py:435-438
            /\ last_error' = "Transactions fetch failed: ..."
            /\ transactions_cache' = << >>
            /\ log' = Append(log, req(IF r.raises THEN "raise" ELSE "http_error", 0, << >>))
            /\ response' = "303"
            /\ LocalsGone
       ELSE IF ~r.json_ok
         THEN \* main.py:440, r.json() raises
              /\ log' = Append(log, req("not_json", 0, << >>))
              /\ response' = "500"
              /\ LocalsGone
              /\ UNCHANGED <<last_error, transactions_cache>>
         ELSE \* main.py:440-445
              LET items == DictGet(r.json, "items", << >>)
                  total == DictGet(r.json, "totalItemCount", 0)
              IN
              /\ total_item_count' = total
              /\ items_all' = items_all \o items
              /\ total_items_fetched' = total_items_fetched + ListLen(items)
              /\ offset' = offset + Limit
              /\ log' = Append(log, req("ok", total, items))
              /\ UNCHANGED <<pc, transaction_type, response, last_error, transactions_cache>>

\* main.py:447-480, after the loop
get_transactions_finish(r) ==
  LET req(res) == Request("review", vantage_host, bearer_token, 0, NONE, res, 0, 0, << >>)
      parsed == fetch_tx_review_and_docskill(r)
      agg == Aggregate(items_all, 1, parsed.map, AggregateStart)
      answered == IF r.status_code # 200 THEN "http_error"
                  ELSE IF r.text_empty THEN "empty"
                  ELSE IF Malformed(r.rows) THEN "malformed"
                  ELSE "ok"
  IN
  /\ pc = "loop"
  /\ ~LoopCond(total_items_fetched, total_item_count)
  /\ UNCHANGED <<handler, bearer_token, vantage_host, skills_cache, last_error,
                 search_attempted>>
  /\ LocalsGone
  /\ IF r.raises
       THEN \* helpers.py:51, requests.get raises; nothing catches it
            /\ log' = Append(log, req("raise"))
            /\ response' = "500"
            /\ UNCHANGED <<transactions_cache, review_summary, docskill_summary>>
       ELSE IF parsed.exc
         THEN \* helpers.py:63 or 68 raises; nothing catches it
              /\ log' = Append(log, req("malformed"))
              /\ response' = "500"
              /\ UNCHANGED <<transactions_cache, review_summary, docskill_summary>>
       ELSE IF agg.exc
         THEN \* main.py:470, int() raises; nothing catches it
              /\ log' = Append(log, req(answered))
              /\ response' = "500"
              /\ UNCHANGED <<transactions_cache, review_summary, docskill_summary>>
         ELSE /\ log' = Append(log, req(answered))
              /\ response' = "303"
              /\ transactions_cache' = agg.rows
              /\ review_summary' = [with_manual_review |-> agg.with_mr,
                                    straight_through |-> agg.straight]
              /\ docskill_summary' =
                   [k \in (DOMAIN agg.pages_by_docskill) \cup (DOMAIN agg.txcount_by_docskill) |->
                      [pages |-> DictGet(agg.pages_by_docskill, k, 0),
                       txcount |-> DictGet(agg.txcount_by_docskill, k, 0)]]

GetTransactionsEnter ==
  UNCHANGED aux /\ \E ttype \in TransactionTypes : get_transactions_enter(ttype)
GetTransactionsPage ==
  UNCHANGED aux /\ \E r \in PageResponses : get_transactions_page(r)
GetTransactionsFinish ==
  UNCHANGED aux /\ \E r \in ReviewResponses : get_transactions_finish(r)

Logout == UNCHANGED aux /\ logout

\* ------------------------------------------------------- specification
Next ==
  \/ GetDashboard
  \/ Authenticate
  \/ GetTransactionsEnter
  \/ GetTransactionsPage
  \/ GetTransactionsFinish
  \/ Logout

Spec == Init /\ [][Next]_vars

\* ------------------------------------------------------------- claims
\* the page requests of the log, and the review request if one was made
PageLog == SelectSeq(log, LAMBDA e : e.endpoint = "transactions")
ReviewLog == SelectSeq(log, LAMBDA e : e.endpoint = "review")

\* items received by the first i page requests
RECURSIVE FetchedUpTo(_, _)
FetchedUpTo(pl, i) == IF i = 0 THEN 0 ELSE pl[i].n + FetchedUpTo(pl, i - 1)

Ceil(a, b) == (a + b - 1) \div b
Max(a, b) == IF a >= b THEN a ELSE b
Min(a, b) == IF a <= b THEN a ELSE b

\* no handler is running
Idle == pc = "idle"

\* C1: between any two actions the two counts of review_summary add up to
\* the number of records in transactions_cache.
C1_SummaryCountsCache ==
  Idle => review_summary.with_manual_review + review_summary.straight_through
            = ListLen(transactions_cache)

\* C2: once a page answered with zero items while its totalItemCount was
\* still above the number of items fetched, no further page request is made.
C2_EmptyPageEndsLoop ==
  \A i \in 1..Len(PageLog) :
    (PageLog[i].result = "ok" /\ PageLog[i].n = 0
       /\ PageLog[i].total > FetchedUpTo(PageLog, i))
    => i = Len(PageLog)

\* the server has so far reported the total T on every page and filled
\* every page up to the limit
FullPages(pl, T) ==
  \A i \in 1..Len(pl) :
    /\ pl[i].result = "ok"
    /\ pl[i].total = T
    /\ pl[i].n = Max(0, Min(Limit, T - (i - 1) * Limit))

\* what C3 says of a fetch whose server behaves as FullPages, with the
\* number of page requests that T calls for given as Count(T)
PagesAsClaimed(pl, T, count) ==
  /\ \A i \in 1..Len(pl) : pl[i].offset = (i - 1) * Limit
  /\ Len(pl) <= count
  /\ (ReviewLog # << >>) => (Len(pl) = count /\ FetchedUpTo(pl, Len(pl)) = T)
  /\ (ReviewLog # << >> /\ response = "303") => ListLen(transactions_cache) = T

\* C3 as stated: a server reporting T with full pages gets exactly
\* ceil(T/1000) page requests, at offsets 0, 1000, 2000, ..., and T items
\* are collected.
C3_CeilPageRequests ==
  (PageLog # << >> /\ FullPages(PageLog, PageLog[1].total))
  => PagesAsClaimed(PageLog, PageLog[1].total, Ceil(PageLog[1].total, Limit))

\* C3 amended: the number of page requests is max(1, ceil(T/1000)); the
\* first request is made before T is known, also when T = 0.
C3_PageRequests ==
  (PageLog # << >> /\ FullPages(PageLog, PageLog[1].total))
  => PagesAsClaimed(PageLog, PageLog[1].total, Max(1, Ceil(PageLog[1].total, Limit)))

\* a finished fetch of T = 2500: three requests, 2500 records cached
C3_Witness ==
  /\ Idle /\ handler = "transactions" /\ response = "303"
  /\ Len(PageLog) = 3
  /\ FullPages(PageLog, 2500)
  /\ <<PageLog[1].offset, PageLog[2].offset, PageLog[3].offset>> = <<0, 1000, 2000>>
  /\ ListLen(transactions_cache) = 2500

\* the fetch that ran last got past its page loop and asked for the review report
ReviewAsked == Idle /\ handler = "transactions" /\ ReviewLog # << >>

\* every record fetched by the last POST /transactions is cached, each as
\* straight-through with no document skill, and the summary says so
CachedAllStraightThrough ==
  /\ response = "303"
  /\ ListLen(transactions_cache) = FetchedUpTo(PageLog, Len(PageLog))
  /\ \A i \in 1..Len(transactions_cache) :
       /\ transactions_cache[i].manualReview = "No"
       /\ transactions_cache[i].documentSkillName = ""
  /\ review_summary = [with_manual_review |-> 0,
                       straight_through |-> ListLen(transactions_cache)]

\* C4: a review report that answers non-200, with an empty body or with
\* malformed CSV yields an empty mapping, and the fetch still caches every
\* record as straight-through with an empty document-skill name.
C4_ReviewFailureKeepsRecords ==
  (ReviewAsked /\ ReviewLog[1].result \in {"http_error", "empty", "malformed"})
  => CachedAllStraightThrough

\* C5: a review-report request that fails at the network level does not
\* abort the fetch: all fetched records are cached as straight-through.
C5_ReviewNetworkErrorKeepsRecords ==
  (ReviewAsked /\ ReviewLog[1].result = "raise") => CachedAllStraightThrough

\* C6: after logout there is no token and no host, every cache is empty,
\* the review summary is zero, last_error is empty and GET / renders the
\* login form.
C6_LogoutClearsAll ==
  handler = "logout" =>
    /\ bearer_token = NONE
    /\ vantage_host = NONE
    /\ skills_cache = << >>
    /\ transactions_cache = << >>
    /\ review_summary = ZeroSummary
    /\ docskill_summary = EmptyDict
    /\ last_error = ""
    /\ dashboard.view = "login"

\* logout has run and the page GET / would render is the login form
C6_Witness == handler = "logout" /\ response = "303" /\ dashboard.view = "login"

\* the step is a POST /authenticate whose token request raised or was
\* answered with a status other than 200
LoginFailedStep ==
  /\ handler' = "authenticate"
  /\ Len(log') = 1
  /\ log'[1].endpoint = "token"
  /\ log'[1].result \in {"raise", "http_error"}

\* C7: a failed POST /authenticate sets last_error and leaves bearer_token
\* and vantage_host at the values they had before the call.
C7_FailedLoginKeepsSession ==
  [][LoginFailedStep =>
       /\ last_error' # ""
       /\ bearer_token' = bearer_token
       /\ vantage_host' = vantage_host]_vars

\* C8: a token response of 200 whose access_token is missing or empty is a
\* failed login: last_error is set and GET / still renders the login form.
C8_EmptyTokenIsFailedLogin ==
  (handler = "authenticate" /\ response = "303" /\ log[1].result = "ok"
     /\ ~Truthy(bearer_token))
  => (last_error # "" /\ dashboard.view = "login")

\* C9: every request to the skills, transactions or review-report endpoint
\* is made with a non-empty token and a non-empty host.
C9_VendorCallsAuthenticated ==
  \A i \in 1..Len(log) :
    log[i].endpoint \in {"skills", "transactions", "review"}
    => (Truthy(log[i].token) /\ Truthy(log[i].host))

\* C10: a POST /transactions that ended on a failed page request made no
\* review-report request, left the cached records and both summaries
\* empty/zero, and set last_error.
C10_FailedPageClearsAll ==
  (Idle /\ handler = "transactions" /\ PageLog # << >>
     /\ PageLog[Len(PageLog)].result \in {"raise", "http_error"})
  => /\ ReviewLog = << >>
     /\ transactions_cache = << >>
     /\ review_summary = ZeroSummary
     /\ docskill_summary = EmptyDict
     /\ last_error # ""

\* ------------------------------------------------- claims C11 to C20
\* the items the page requests of the log returned, in the order received
RECURSIVE ItemsReceived(_, _)
ItemsReceived(pl, i) ==
  IF i = 0 THEN << >> ELSE ItemsReceived(pl, i - 1) \o pl[i].items

\* a cached record without the two members the handler adds
RawItem(tx) == [transactionId |-> tx.transactionId, pageCount |-> tx.pageCount, n |-> tx.n]

\* f[1] + ... + f[i]
RECURSIVE SumOver(_, _)
SumOver(f, i) == IF i = 0 THEN 0 ELSE f[i] + SumOver(f, i - 1)

\* number of list elements among the runs picked by Pick
CountRuns(rows, Pick(_)) ==
  SumOver([i \in 1..Len(rows) |-> IF Pick(rows[i]) THEN rows[i].n ELSE 0], Len(rows))

\* pages of a record: its pageCount, 0 when that is missing or null
PagesOf(tx) == IF tx.pageCount.t = "int" THEN tx.pageCount.v ELSE 0

\* sum of the pages of the records picked by Pick
SumPages(rows, Pick(_)) ==
  SumOver([i \in 1..Len(rows) |-> IF Pick(rows[i]) THEN rows[i].n * PagesOf(rows[i]) ELSE 0],
          Len(rows))

\* document-skill names of the cached records
NamesIn(rows) == { rows[i].documentSkillName : i \in 1..Len(rows) }

\* the two summaries as the cached records alone determine them
SummaryOf(rows) ==
  [with_manual_review |-> CountRuns(rows, LAMBDA tx : tx.manualReview = "Yes"),
   straight_through |-> CountRuns(rows, LAMBDA tx : tx.manualReview # "Yes")]
DocSkillOf(rows) ==
  [k \in NamesIn(rows) \ {""} |->
     [pages |-> SumPages(rows, LAMBDA tx : tx.documentSkillName = k),
      txcount |-> CountRuns(rows, LAMBDA tx : tx.documentSkillName = k)]]

\* the POST /transactions that ran last replaced the caches
FetchSucceeded ==
  Idle /\ handler = "transactions" /\ response = "303" /\ ReviewLog # << >>

\* C11: after a successful POST /transactions the cache holds exactly the
\* items its page requests returned, in fetch order, and both summaries are
\* those of these records; nothing of an earlier fetch remains.
C11_CacheReplacedWholesale ==
  FetchSucceeded =>
    /\ [i \in 1..Len(transactions_cache) |-> RawItem(transactions_cache[i])]
         = ItemsReceived(PageLog, Len(PageLog))
    /\ review_summary = SummaryOf(transactions_cache)
    /\ docskill_summary = DocSkillOf(transactions_cache)

\* a successful fetch of two pages with different items, one of them reviewed
C11_Witness ==
  /\ FetchSucceeded
  /\ Len(transactions_cache) = 2
  /\ transactions_cache[1].transactionId # transactions_cache[2].transactionId
  /\ review_summary.with_manual_review > 0
  /\ docskill_summary # EmptyDict

\* sum of the transaction counts of all entries of a doc-skill summary
RECURSIVE TxCountTotal(_)
TxCountTotal(d) ==
  IF DOMAIN d = {} THEN 0
  ELSE LET k == CHOOSE x \in DOMAIN d : TRUE
       IN d[k].txcount + TxCountTotal([x \in (DOMAIN d) \ {k} |-> d[x]])

\* C12: after any POST /transactions docskill_summary has no entry for the
\* empty name and its transaction counts add up to the number of cached
\* records with a non-empty document-skill name.
C12_DocSkillCountsNamedRecords ==
  (Idle /\ handler = "transactions") =>
    /\ "" \notin DOMAIN docskill_summary
    /\ TxCountTotal(docskill_summary)
         = CountRuns(transactions_cache, LAMBDA tx : tx.documentSkillName # "")

\* C13: docskill_summary has an entry for a name exactly if a cached record
\* has that name, and the entry holds the sum of the pageCount (missing or
\* null as 0) and the number of the records with that name.
C13_DocSkillGroupsCache ==
  Idle =>
    /\ DOMAIN docskill_summary = NamesIn(transactions_cache) \ {""}
    /\ \A k \in DOMAIN docskill_summary :
         /\ docskill_summary[k].pages
              = SumPages(transactions_cache, LAMBDA tx : tx.documentSkillName = k)
         /\ docskill_summary[k].txcount
              = CountRuns(transactions_cache, LAMBDA tx : tx.documentSkillName = k)

\* ------------------------------------- items with an unusual pageCount
\* raw items whose pageCount is text that is no number, null, or absent
ItemText == [transactionId |-> "T1", pageCount |-> JText]
ItemNull == [transactionId |-> "T2", pageCount |-> JNull]
ItemMissing == [transactionId |-> "T3", pageCount |-> JMissing]

\* backup_09092025T015000/main.py:559, the slice of export_csv
ExportLimit == 500

\* pages of such items; two of them hold more than ExportLimit items
OddPageItems ==
  { << Run(ItemText, 1) >>,
    << Run(ItemMissing, 1), Run(ItemA, 1) >>,
    << Run(ItemNull, 300), Run(ItemMissing, 300) >>,
    << Run(ItemA, ExportLimit), Run(ItemText, 2) >> }

\* answers of the transactions endpoint that deliver everything in one page
OddPageResponses ==
  { [raises |-> FALSE, status_code |-> 500, json_ok |-> FALSE, json |-> << >>] }
  \cup
  { [raises |-> FALSE, status_code |-> 200, json_ok |-> TRUE,
     json |-> [items |-> it, totalItemCount |-> ListLen(it)]] : it \in OddPageItems }

GetTransactionsPageOdd ==
  UNCHANGED aux /\ \E r \in OddPageResponses : get_transactions_page(r)

\* a login the vendor accepts
Login ==
  /\ UNCHANGED aux
  /\ \E sr \in SkillsResponses :
       authenticate("au", [raises |-> FALSE, status_code |-> 200, json_ok |-> TRUE,
                           access_token |-> "tokA"], sr)

\* ---------------------------------------------------- GET /export.csv
\* the whole list, whatever k
TakeRuns_uncapped(l, k) == l

\* the first k elements of a run-length encoded list, l[:k]
RECURSIVE TakeRuns(_, _)
TakeRuns(l, k) ==
  IF l = << >> \/ k <= 0 THEN << >>
  ELSE IF Head(l).n <= k THEN << Head(l) >> \o TakeRuns(Tail(l), k - Head(l).n)
  ELSE << [Head(l) EXCEPT !.n = k] >>

\* backup_09092025T015000/main.py:557
CsvHeader == << "id", "status", "pageCount", "created", "sourceFileName", "manualReview" >>

\* csv.writer's text for a pageCount: None is written as the empty field
CsvField(pc_) ==
  CASE pc_.t = "int" -> pc_
    [] pc_.t = "str" -> pc_
    [] OTHER -> [t |-> "empty", v |-> 0]

\* backup_09092025T015000/main.py:560-567, the row written for tx; the items
\* of the model have none of id, status, created, sourceFileName
CsvRow(tx) ==
  [id |-> "", status |-> "", pageCount |-> CsvField(tx.pageCount), created |-> "",
   sourceFileName |-> "", manualReview |-> tx.manualReview, n |-> tx.n]

\* backup_09092025T015000/main.py:549-573
export_csv ==
  LET shown == TakeRuns(transactions_cache, ExportLimit)
  IN
  /\ pc = "idle"
  /\ handler' = "export_csv"
  /\ response' = "200"
  /\ log' = << >>
  /\ body' = [header |-> CsvHeader, rows |-> [i \in 1..Len(shown) |-> CsvRow(shown[i])]]
  /\ UNCHANGED <<globals, locals>>

ExportCsv == UNCHANGED <<helper_call, threads>> /\ export_csv

NextItems ==
  \/ GetDashboard
  \/ Login
  \/ GetTransactionsEnter
  \/ GetTransactionsPageOdd
  \/ GetTransactionsFinish
  \/ Logout
  \/ ExportCsv

SpecItems == Init /\ [][NextItems]_vars

\* C14: POST /transactions and the GET / after it complete without raising
\* whatever the pageCount of the items is, and the items are cached.
C14_OddPageCountTolerated ==
  /\ (Idle /\ handler = "transactions" /\ ReviewLog # << >>
        /\ ReviewLog[1].result \in {"ok", "empty", "http_error"})
       => /\ response = "303"
          /\ [i \in 1..Len(transactions_cache) |-> RawItem(transactions_cache[i])]
               = ItemsReceived(PageLog, Len(PageLog))
  /\ handler = "dashboard" => response # "500"

\* --------------------------------- fetch_tx_review_and_docskill alone
\* the state of the application at start, whatever helper is called
AppStart ==
  /\ bearer_token = NONE
  /\ vantage_host = NONE
  /\ skills_cache = << >>
  /\ transactions_cache = << >>
  /\ review_summary = ZeroSummary
  /\ docskill_summary = EmptyDict
  /\ last_error = ""
  /\ search_attempted = FALSE
  /\ pc = "idle"
  /\ transaction_type = ""
  /\ offset = 0
  /\ total_items_fetched = 0
  /\ total_item_count = 0
  /\ items_all = << >>
  /\ handler = "none"
  /\ response = ""
  /\ log = << >>
  /\ body = NoBody
  /\ threads = NoThreads

\* longest review report
MaxRows == 3

\* well-formed rows of the review report: every column is a string
ReportRows ==
  { RowReviewed, RowPlain,
    [TransactionId |-> "T1", HasManualReview |-> "false", DocumentSkillName |-> ""],
    [TransactionId |-> "T1", HasManualReview |-> "TRUE", DocumentSkillName |-> "Receipt"],
    [TransactionId |-> "T2", HasManualReview |-> "1", DocumentSkillName |-> " "],
    [TransactionId |-> " ", HasManualReview |-> "yes", DocumentSkillName |-> "Receipt"],
    [TransactionId |-> "T2", HasManualReview |-> "no", DocumentSkillName |-> " Invoice "] }

ReportBodies == UNION { [1..n -> ReportRows] : n \in 0..MaxRows }

\* answers of the reporting endpoint with a well-formed report
ReportResponses ==
  { [raises |-> FALSE, status_code |-> 200, text_empty |-> FALSE, rows |-> b] :
      b \in ReportBodies }

InitRows ==
  /\ AppStart
  /\ helper_call \in { [fn |-> "fetch_tx_review_and_docskill", arg |-> r, done |-> FALSE,
                        result |-> [exc |-> FALSE, map |-> EmptyDict]] : r \in ReportResponses }

\* helpers.py:30-80, the call returns
FetchTxReviewAndDocskill ==
  /\ helper_call.fn = "fetch_tx_review_and_docskill"
  /\ ~helper_call.done
  /\ helper_call' = [helper_call EXCEPT !.done = TRUE,
                       !.result = fetch_tx_review_and_docskill(helper_call.arg)]
  /\ UNCHANGED <<globals, locals, handler, response, log, body, threads>>

NextRows == FetchTxReviewAndDocskill

SpecRows == InitRows /\ [][NextRows]_vars

\* the call of fetch_tx_review_and_docskill has returned
Parsed == helper_call.fn = "fetch_tx_review_and_docskill" /\ helper_call.done

\* the transaction id of a row with the blanks around it removed
RowId(row) == IF row.TransactionId = " " THEN "" ELSE row.TransactionId

\* the HasManualReview texts that indicate a manual review
Indications == { " Yes ", "TRUE", "1", "yes" }

\* the rows in every order
Reorderings(rows) ==
  { [i \in 1..Len(rows) |-> rows[p[i]]] :
      p \in { q \in [1..Len(rows) -> 1..Len(rows)] :
                \A i, j \in 1..Len(rows) : q[i] = q[j] => i = j } }

\* C15: the mapping marks an id as manually reviewed exactly if some row
\* with that id carries true, 1 or yes (in any case, blanks ignored); the
\* order of the rows does not matter and a later row never resets the mark.
C15_ReviewedIffSomeRow ==
  Parsed =>
    LET rows == helper_call.arg.rows
        m == helper_call.result.map
    IN
    /\ ~helper_call.result.exc
    /\ DOMAIN m = { RowId(rows[i]) : i \in 1..Len(rows) } \ {""}
    /\ \A k \in DOMAIN m :
         m[k].manual_review <=>
           \E i \in 1..Len(rows) : RowId(rows[i]) = k /\ rows[i].HasManualReview \in Indications
    /\ \A other \in Reorderings(rows) :
         LET m2 == fetch_tx_review_and_docskill([helper_call.arg EXCEPT !.rows = other]).map
         IN /\ DOMAIN m2 = DOMAIN m
            /\ \A k \in DOMAIN m : m2[k].manual_review = m[k].manual_review

\* a reviewed row of T1 followed by a row of T1 that is not reviewed
C15_Witness ==
  /\ Parsed
  /\ Len(helper_call.arg.rows) = 2
  /\ helper_call.arg.rows[1] = RowReviewed
  /\ helper_call.arg.rows[2].TransactionId = "T1"
  /\ helper_call.arg.rows[2].HasManualReview = "false"
  /\ helper_call.result.map["T1"].manual_review

\* the DocumentSkillName of a row with the blanks around it removed
RowSkill(row) ==
  CASE row.DocumentSkillName = " Invoice " -> "Invoice"
    [] row.DocumentSkillName = " " -> ""
    [] OTHER -> row.DocumentSkillName

\* the name of the last row of id k that has one, "" when none has
LastSkill(rows, k) ==
  LET named == { i \in 1..Len(rows) : RowId(rows[i]) = k /\ RowSkill(rows[i]) # "" }
  IN IF named = {} THEN ""
     ELSE RowSkill(rows[CHOOSE i \in named : \A j \in named : j <= i])

\* C16: document_skill_name of an id is the trimmed DocumentSkillName of the
\* last row with that id whose name is not empty, "" when there is none; a
\* later row with an empty name does not erase it.
C16_LastNonEmptySkillName ==
  Parsed =>
    \A k \in DOMAIN helper_call.result.map :
      helper_call.result.map[k].document_skill_name = LastSkill(helper_call.arg.rows, k)

\* two names for T1, then a row of T1 without a name
C16_Witness ==
  /\ Parsed
  /\ Len(helper_call.arg.rows) = 3
  /\ helper_call.arg.rows[1] = RowReviewed
  /\ helper_call.arg.rows[2].TransactionId = "T1"
  /\ helper_call.arg.rows[2].DocumentSkillName = "Receipt"
  /\ helper_call.arg.rows[3].TransactionId = "T1"
  /\ helper_call.arg.rows[3].DocumentSkillName = ""
  /\ helper_call.result.map["T1"].document_skill_name = "Receipt"

\* C17: a page request carries no TransactionStatus when transaction_type is
\* All, and carries transaction_type as its TransactionStatus otherwise.
C17_AllOmitsStatus ==
  pc = "loop" =>
    \A i \in 1..Len(PageLog) :
      PageLog[i].status = (IF transaction_type = "All" THEN NONE ELSE transaction_type)

\* ------------------------- the application of backup_01092025T041900
\* backup_01092025T041900/main.py:103-122, POST /authenticate.  Nothing
\* catches an exception of requests.post or of r.json().
authenticate_old(url, tr) ==
  LET host == Strip(url)
      tokenReq(res) == Request("token", host, NONE, 0, NONE, res, 0, 0, << >>)
  IN
  /\ pc = "idle"
  /\ handler' = "authenticate"
  /\ vantage_host' = host
  /\ UNCHANGED <<skills_cache, transactions_cache, review_summary, docskill_summary,
                 search_attempted, locals>>
  /\ IF tr.raises
       THEN /\ log' = << tokenReq("raise") >>
            /\ response' = "500"
            /\ UNCHANGED <<bearer_token, last_error>>
       ELSE IF tr.status_code # 200
         THEN /\ last_error' = "Login Failed. Error: ..."
              /\ bearer_token' = NONE
              /\ log' = << tokenReq("http_error") >>
              /\ response' = "303"
         ELSE IF ~tr.json_ok
           THEN /\ log' = << tokenReq("ok") >>
                /\ response' = "500"
                /\ UNCHANGED <<bearer_token, last_error>>
           ELSE /\ bearer_token' = tr.access_token
                /\ last_error' = ""
                /\ log' = << tokenReq("ok") >>
                /\ response' = "303"

AuthenticateOld ==
  /\ UNCHANGED aux
  /\ \E url \in Urls : \E tr \in TokenResponsesFor(Strip(url)) : authenticate_old(url, tr)

\* backup_01092025T041900/main.py:125-132, GET /skills
load_skills_old(sr) ==
  LET req(res) == Request("skills", vantage_host, bearer_token, 0, NONE, res, 0, 0,
                          IF res = "ok" THEN sr.json ELSE << >>)
  IN
  /\ pc = "idle"
  /\ handler' = "skills"
  /\ UNCHANGED <<bearer_token, vantage_host, transactions_cache, review_summary,
                 docskill_summary, last_error, search_attempted, locals>>
  /\ IF sr.raises
       THEN /\ log' = << req("raise") >>
            /\ response' = "500"
            /\ UNCHANGED skills_cache
       ELSE IF sr.status_code = 200
         THEN /\ skills_cache' = sr.json
              /\ log' = << req("ok") >>
              /\ response' = "303"
         ELSE /\ log' = << req("http_error") >>
              /\ response' = "303"
              /\ UNCHANGED skills_cache

LoadSkillsOld ==
  UNCHANGED aux /\ \E sr \in SkillsResponses : load_skills_old(sr)

NextOld ==
  \/ AuthenticateOld
  \/ LoadSkillsOld

SpecOld == Init /\ [][NextOld]_vars

\* C18: when loading the skills fails, at login or on a reload, skills_cache
\* is empty, last_error is set and the token is the one the request carried;
\* when it succeeds, skills_cache is the list returned.
C18_SkillsLoadOutcome ==
  \A i \in 1..Len(log) :
    log[i].endpoint = "skills" =>
      IF log[i].result = "ok"
        THEN skills_cache = log[i].items
        ELSE /\ skills_cache = << >>
             /\ last_error # ""
             /\ bearer_token = log[i].token

\* --------------------------------------------------------- to_utc_iso
\* Instants and wall-clock times are seconds; day k begins at k * DaySeconds.
DaySeconds == 86400

\* last calendar day of the form's date fields
MaxDay == 5

\* the time zone of the machine the application runs on: three without
\* clock changes, one that changes at 02:00 and 03:00 local time, one that
\* changes at local midnight.  Clocks go forward on day 2 and back on day 4.
Zones == { "UTC", "Asia/Kolkata", "Pacific/Honolulu", "Europe/Berlin", "America/Santiago" }

\* the UTC offset that zone z observes at the instant u
UtcOffset(z, u) ==
  CASE z = "UTC" -> 0
    [] z = "Asia/Kolkata" -> 19800
    [] z = "Pacific/Honolulu" -> 0 - 36000
    [] z = "Europe/Berlin" ->
         IF u >= 2 * DaySeconds + 3600 /\ u < 4 * DaySeconds + 3600 THEN 7200 ELSE 3600
    [] z = "America/Santiago" ->
         IF u >= 2 * DaySeconds + 14400 /\ u < 5 * DaySeconds + 10800
           THEN 0 - 10800 ELSE 0 - 14400

\* time.localtime(u) as seconds of wall-clock time
LocalTime(z, u) == u + UtcOffset(z, u)

\* helpers.py:11, astimezone() of a naive datetime t with fold = 0: the
\* instant at which the local clock shows t (datetime._mktime)
Mktime(z, t) ==
  LET a == LocalTime(z, t) - t
      u1 == t - a
      t1 == LocalTime(z, u1)
      b == IF t1 = t THEN LocalTime(z, u1 - DaySeconds) - (u1 - DaySeconds) ELSE t1 - u1
      u2 == t - b
  IN IF t1 = t /\ a = b THEN u1
     ELSE IF LocalTime(z, u2) = t THEN u2
     ELSE IF t1 = t THEN u1
     ELSE Max(u1, u2)

\* the time of day always 00:00:00
DayTime_midnight(is_end) == 0

\* helpers.py:9, time(23, 59, 59) or time(0, 0, 0) as seconds of the day
DayTime(is_end) == IF is_end THEN 23 * 3600 + 59 * 60 + 59 ELSE 0

\* helpers.py:7-12 on a machine in zone z; the result is the UTC date and
\* time of day that isoformat() prints
to_utc_iso(z, date, is_end) ==
  LET dt == date * DaySeconds + DayTime(is_end)
      u == Mktime(z, dt)
  IN [date |-> u \div DaySeconds, time |-> u % DaySeconds]

\* main.py:409-410, the two calls of get_transactions
InitDates ==
  /\ AppStart
  /\ helper_call \in { [fn |-> "to_utc_iso", zone |-> z, start_date |-> d1, end_date |-> d2,
                        done |-> FALSE,
                        start_iso |-> [date |-> 0, time |-> 0],
                        end_iso |-> [date |-> 0, time |-> 0]] :
                         z \in Zones, d1 \in 1..MaxDay, d2 \in 1..MaxDay }

ToUtcIso ==
  /\ helper_call.fn = "to_utc_iso"
  /\ ~helper_call.done
  /\ helper_call' =
       [helper_call EXCEPT
          !.done = TRUE,
          !.start_iso = to_utc_iso(helper_call.zone, helper_call.start_date, FALSE),
          !.end_iso = to_utc_iso(helper_call.zone, helper_call.end_date, TRUE)]
  /\ UNCHANGED <<globals, locals, handler, response, log, body, threads>>

NextDates == ToUtcIso

SpecDates == InitDates /\ [][NextDates]_vars

\* the instant a UTC date and time of day stand for
Instant(iso) == iso.date * DaySeconds + iso.time

\* some instant shows the wall-clock time t in zone z
OnTheClock(z, t) ==
  \E o \in {0, 3600, 7200, 19800, 0 - 36000, 0 - 10800, 0 - 14400} :
    UtcOffset(z, t - o) = o

\* the clock of zone z does not change from just before s to just after e
NoClockChange(z, s, e) ==
  \A u \in {s - 1, e, e + 1} : UtcOffset(z, u) = UtcOffset(z, s)

\* C19: to_utc_iso(d) is the instant of 00:00:00 local time on d and
\* to_utc_iso(d, is_end) that of 23:59:59; for the same date the end is
\* later, by 86399 seconds when the clock does not change that day, and
\* for start_date <= end_date the start instant is earlier than the end.
C19_WindowCoversLocalDay ==
  (helper_call.fn = "to_utc_iso" /\ helper_call.done) =>
    LET z == helper_call.zone
        s == Instant(helper_call.start_iso)
        e == Instant(helper_call.end_iso)
        midnight == helper_call.start_date * DaySeconds
        last_second == helper_call.end_date * DaySeconds + 86399
    IN
    /\ helper_call.start_iso.time \in 0..(DaySeconds - 1)
    /\ helper_call.end_iso.time \in 0..(DaySeconds - 1)
    /\ OnTheClock(z, midnight) => LocalTime(z, s) = midnight
    /\ OnTheClock(z, last_second) => LocalTime(z, e) = last_second
    /\ LocalTime(z, s) \div DaySeconds = helper_call.start_date
    /\ LocalTime(z, e) \div DaySeconds = helper_call.end_date
    /\ helper_call.start_date <= helper_call.end_date => s < e
    /\ (helper_call.start_date = helper_call.end_date /\ NoClockChange(z, s, e))
         => e - s = 86399

\* a window of one day in a zone ahead of UTC: the start falls on the
\* previous UTC date
C19_Witness ==
  /\ helper_call.fn = "to_utc_iso"
  /\ helper_call.done
  /\ helper_call.zone = "Asia/Kolkata"
  /\ helper_call.start_date = 3
  /\ helper_call.end_date = 3
  /\ helper_call.start_iso = [date |-> 2, time |-> 66600]
  /\ helper_call.end_iso = [date |-> 3, time |-> 66599]

\* the element at position p of a run-length encoded list
RECURSIVE ElemAt(_, _)
ElemAt(l, p) == IF p <= Head(l).n THEN Head(l) ELSE ElemAt(Tail(l), p - Head(l).n)

\* the CSV row r is the one of the cached record tx
RowOfRecord(r, tx) ==
  /\ r.manualReview = tx.manualReview
  /\ IF tx.pageCount.t \in {"null", "missing"}
       THEN r.pageCount.t = "empty"
       ELSE r.pageCount = tx.pageCount

\* C20: GET /export.csv answers the header row and min(n, 500) data rows,
\* the row at each position being that of the cached record at the same
\* position (so only the header for an empty cache), and changes nothing
\* of the session or the caches.
C20_ExportFirst500 ==
  /\ [](handler = "export_csv" =>
          /\ body.header = << "id", "status", "pageCount", "created", "sourceFileName",
                              "manualReview" >>
          /\ ListLen(body.rows) = Min(ListLen(transactions_cache), 500)
          /\ \A p \in 1..Min(ListLen(transactions_cache), 500) :
               RowOfRecord(ElemAt(body.rows, p), ElemAt(transactions_cache, p)))
  /\ [][handler' = "export_csv" => UNCHANGED globals]_vars

\* an export of a cache of 600 records: the 500th row is one of the
\* second run
C20_Witness ==
  /\ handler = "export_csv"
  /\ ListLen(transactions_cache) = 600
  /\ Len(body.rows) = 2
  /\ body.rows[2].n = 200

\* ------------------------------------------------- claims C21 to C27
\* C26: GET / never renders the last_error banner and the "No transactions
\* found" notice together.
C26_AtMostOneBanner ==
  ~(dashboard.error_banner /\ dashboard.no_results_banner)

\* C27: the cached records and the summaries belong to the stored token and
\* host: a page request carries both, and no step changes the token or the
\* host and leaves records or summaries of before in place.
C27_CacheBelongsToSession ==
  [][/\ \A i \in 1..Len(PageLog') :
          PageLog'[i].host = vantage_host' /\ PageLog'[i].token = bearer_token'
     /\ (bearer_token' # bearer_token \/ vantage_host' # vantage_host) =>
          /\ transactions_cache' = << >>
          /\ review_summary' = ZeroSummary
          /\ docskill_summary' = EmptyDict]_vars

\* ------------------------------------ the source file name of a record
\* longest fileParameters list
MaxParams == 3

\* entries of a fileParameters list; value is MISSING when the entry has no
\* "value" member
FileParameterEntries ==
  { [key |-> k, value |-> v] :
      k \in {"SourceFileName", "SourceType"}, v \in {"a.pdf", "b.pdf", MISSING} }
  \cup { [key |-> "sourcefilename", value |-> "c.pdf"] }

\* the fileParameters member of a record: absent, null, or a list
FileParameters ==
  { [t |-> "missing", v |-> << >>], [t |-> "null", v |-> << >>] }
  \cup { [t |-> "list", v |-> l] :
           l \in UNION { [1..n -> FileParameterEntries] : n \in 0..MaxParams } }

\* main.py:225-227, the loop from entry i on; source_file is overwritten by
\* every entry whose key matches
RECURSIVE SourceFileLoop(_, _, _)
SourceFileLoop(fps, i, source_file) ==
  IF i > Len(fps) THEN source_file
  ELSE SourceFileLoop(fps, i + 1,
         IF fps[i].key = "SourceFileName"
           THEN (IF fps[i].value = MISSING THEN "" ELSE fps[i].value)
           ELSE source_file)

\* main.py:224-227 for a record whose fileParameters member is fps.  exc:
\* iterating over None raises TypeError
source_file(fps) ==
  IF fps.t = "null" THEN [exc |-> TRUE, value |-> ""]
  ELSE IF fps.t = "missing" THEN [exc |-> FALSE, value |-> ""]
  ELSE [exc |-> FALSE, value |-> SourceFileLoop(fps.v, 1, "")]

InitFile ==
  /\ AppStart
  /\ helper_call \in { [fn |-> "source_file", arg |-> fps, done |-> FALSE,
                        result |-> [exc |-> FALSE, value |-> ""]] : fps \in FileParameters }

\* main.py:223-227, one row of the results table is rendered
SourceFile ==
  /\ helper_call.fn = "source_file"
  /\ ~helper_call.done
  /\ helper_call' = [helper_call EXCEPT !.done = TRUE, !.result = source_file(helper_call.arg)]
  /\ UNCHANGED <<globals, locals, handler, response, log, body, threads>>

NextFile == SourceFile

SpecFile == InitFile /\ [][NextFile]_vars

\* the value of the first entry of fps with the key SourceFileName, "" when
\* fps is no list or has no such entry
FirstSourceFileName(fps) ==
  IF fps.t # "list" THEN ""
  ELSE LET hits == { i \in 1..Len(fps.v) : fps.v[i].key = "SourceFileName" }
       IN IF hits = {} THEN ""
          ELSE LET first == CHOOSE i \in hits : \A j \in hits : i <= j
               IN IF fps.v[first].value = MISSING THEN "" ELSE fps.v[first].value

\* C23: the source file name is the value of the first fileParameters entry
\* with the key SourceFileName, and "" without raising when there is no
\* such entry or no list.
C23_FirstSourceFileName ==
  (helper_call.fn = "source_file" /\ helper_call.done) =>
    /\ ~helper_call.result.exc
    /\ helper_call.result.value = FirstSourceFileName(helper_call.arg)

\* ------------------------------------------- the detail of an error
\* A text is kept as where it comes from and how long it is.
Text(src, len) == [src |-> src, len |-> len]

\* members of a JSON error body: absent, empty or a message
MemberValues == {MISSING, "", "message"}

\* failed vendor responses: a JSON object with some of the members detail,
\* error_description, title and error, or a body that is no JSON object,
\* of text_len characters after strip(); 0 is the empty body
ErrorResponses ==
  { [status_code |-> st, json_ok |-> TRUE, detail |-> d, error_description |-> e,
     title |-> t, error |-> x, text_len |-> n] :
       st \in {401, 500}, d \in MemberValues, e \in MemberValues, t \in MemberValues,
       x \in {MISSING, "message"}, n \in {20, 400} }
  \cup
  { [status_code |-> st, json_ok |-> FALSE, detail |-> MISSING, error_description |-> MISSING,
     title |-> MISSING, error |-> MISSING, text_len |-> n] :
       st \in {401, 500}, n \in {0, 20, 400} }

\* data.get(k) is truthy
Has(resp, k) == resp.json_ok /\ resp[k] \notin {MISSING, ""}

\* helpers.py:15-27
extract_detail_from_response(resp) ==
  IF Has(resp, "detail") THEN Text("detail", 7)
  ELSE IF Has(resp, "error_description") THEN Text("error_description", 7)
  ELSE IF Has(resp, "title") THEN Text("title", 7)
  ELSE Text("body", resp.text_len)

\* main.py:371-376, err_msg of a failed login
login_err_msg(resp) ==
  IF Has(resp, "error_description") THEN Text("error_description", 7)
  ELSE IF Has(resp, "error") THEN Text("error", 7)
  ELSE Text("body", resp.text_len)

\* main.py:393-396 and 434-436, the text of the HTTPError that
\* raise_for_status() raised: status, reason and URL, nothing of the body
fetch_err_msg(resp) == Text("exception", 60)

InitDetail ==
  /\ AppStart
  /\ helper_call \in { [fn |-> "extract_detail_from_response", arg |-> resp, done |-> FALSE,
                        detail |-> Text("", 0), login |-> Text("", 0), fetch |-> Text("", 0)] :
                         resp \in ErrorResponses }

\* the message each failure path makes of the response
ExtractDetail ==
  /\ helper_call.fn = "extract_detail_from_response"
  /\ ~helper_call.done
  /\ helper_call' = [helper_call EXCEPT !.done = TRUE,
                       !.detail = extract_detail_from_response(helper_call.arg),
                       !.login = login_err_msg(helper_call.arg),
                       !.fetch = fetch_err_msg(helper_call.arg)]
  /\ UNCHANGED <<globals, locals, handler, response, log, body, threads>>

NextDetail == ExtractDetail

SpecDetail == InitDetail /\ [][NextDetail]_vars

\* the detail by the precedence detail, error_description, title, raw body
\* cut to 300 characters and an ellipsis, "HTTP " and the status
DetailByPrecedence(resp) ==
  IF Has(resp, "detail") THEN Text("detail", 7)
  ELSE IF Has(resp, "error_description") THEN Text("error_description", 7)
  ELSE IF Has(resp, "title") THEN Text("title", 7)
  ELSE IF resp.text_len > 300 THEN Text("body", 301)
  ELSE IF resp.text_len > 0 THEN Text("body", resp.text_len)
  ELSE Text("status", 8)

\* C22: the detail of a failed response follows one precedence (detail,
\* error_description, title, truncated body, HTTP status), for failed
\* logins and for failed skills and transactions requests alike.
C22_OneDetailRule ==
  (helper_call.fn = "extract_detail_from_response" /\ helper_call.done) =>
    /\ helper_call.detail = DetailByPrecedence(helper_call.arg)
    /\ helper_call.login = DetailByPrecedence(helper_call.arg)
    /\ helper_call.fetch = DetailByPrecedence(helper_call.arg)

\* ------------------------------------------------ reading the CSV back
\* what csv.DictReader yields for a pageCount cell: always a string, the
\* digits of a number, the text, or the empty string
CsvParse(cell) ==
  CASE cell.t = "int" -> [t |-> "digits", v |-> cell.v]
    [] cell.t = "str" -> cell
    [] OTHER -> [t |-> "empty string", v |-> 0]

\* the value read back is the cached one: the same number, the same text,
\* or again null or no value
ReadBackUnchanged(parsed, cached) ==
  CASE cached.t = "int" -> parsed = [t |-> "digits", v |-> cached.v]
    [] cached.t = "str" -> parsed = cached
    [] OTHER -> parsed.t = cached.t

\* C21: for each of the first 500 cached records, parsing the exported CSV
\* gives back its pageCount and manualReview unchanged, also when the
\* pageCount is missing or null in the cache.
C21_ExportRoundTrip ==
  handler = "export_csv" =>
    \A p \in 1..Min(ListLen(transactions_cache), 500) :
      /\ ReadBackUnchanged(CsvParse(ElemAt(body.rows, p).pageCount),
                           ElemAt(transactions_cache, p).pageCount)
      /\ ElemAt(body.rows, p).manualReview = ElemAt(transactions_cache, p).manualReview

\* ----------------------------------------- handlers running together
\* The handlers are plain def functions, so the server runs each request on
\* a thread of its pool; threads interleave between any two statements.
\* A thread is followed from one global read or write to the next.
ThreadIds == {1, 2}

\* a thread of the pool that serves no request
ThreadIdle ==
  [op |-> "none", pc |-> "idle", passed |-> FALSE, host |-> NONE, token |-> NONE,
   items_all |-> << >>, total_items_fetched |-> 0, total_item_count |-> 0,
   agg |-> AggregateStart, response |-> ""]

Thread(t) == DictGet(threads, t, ThreadIdle)

SetThread(t, th) == threads' = DictPut(threads, t, th)

\* what a thread step leaves alone besides the globals it names
others == <<locals, handler, response, log, body, helper_call>>

\* main.py:406-409, the authentication check and the headers
tx_check(t) ==
  /\ Thread(t).op = "none"
  /\ UNCHANGED <<globals, others>>
  /\ IF ~Truthy(bearer_token) \/ ~Truthy(vantage_host)
       THEN SetThread(t, [ThreadIdle EXCEPT !.op = "transactions", !.pc = "done",
                                            !.response = "303"])
       ELSE SetThread(t, [ThreadIdle EXCEPT !.op = "transactions", !.pc = "clear_error",
                                            !.passed = TRUE, !.token = bearer_token])

\* main.py:412
tx_clear_error(t) ==
  /\ Thread(t).pc = "clear_error"
  /\ last_error' = ""
  /\ SetThread(t, [Thread(t) EXCEPT !.pc = "setup"])
  /\ UNCHANGED <<bearer_token, vantage_host, skills_cache, transactions_cache,
                 review_summary, docskill_summary, search_attempted, others>>

\* main.py:413-419
tx_setup(t) ==
  /\ Thread(t).pc = "setup"
  /\ search_attempted' = TRUE
  /\ SetThread(t, [Thread(t) EXCEPT !.pc = "loop", !.host = vantage_host,
                                    !.total_items_fetched = 0, !.total_item_count = 1])
  /\ UNCHANGED <<bearer_token, vantage_host, skills_cache, transactions_cache,
                 review_summary, docskill_summary, last_error, others>>

\* answers of the transactions endpoint: a failure, or everything in one page
ThreadPageResponses ==
  { [raises |-> FALSE, status_code |-> 500, json_ok |-> FALSE, json |-> << >>] }
  \cup
  { [raises |-> FALSE, status_code |-> 200, json_ok |-> TRUE,
     json |-> [items |-> it, totalItemCount |-> ListLen(it)]] :
       it \in { << Run(ItemA, 2) >>, << Run(ItemB, 3) >> } }

\* main.py:421-445, one iteration; a URL built from the host None cannot be
\* reached
tx_page(t, r) ==
  LET th == Thread(t) IN
  /\ th.pc = "loop"
  /\ LoopCond(th.total_items_fetched, th.total_item_count)
  /\ UNCHANGED <<globals, others>>
  /\ IF th.host = NONE \/ r.raises \/ RaiseForStatus(r)
       THEN SetThread(t, [th EXCEPT !.pc = "set_error"])
       ELSE SetThread(t, [th EXCEPT
              !.total_item_count = r.json.totalItemCount,
              !.items_all = th.items_all \o r.json.items,
              !.total_items_fetched = th.total_items_fetched + ListLen(r.json.items)])

\* main.py:436
tx_set_error(t) ==
  /\ Thread(t).pc = "set_error"
  /\ last_error' = "Transactions fetch failed: ..."
  /\ SetThread(t, [Thread(t) EXCEPT !.pc = "clear_cache"])
  /\ UNCHANGED <<bearer_token, vantage_host, skills_cache, transactions_cache,
                 review_summary, docskill_summary, search_attempted, others>>

\* main.py:437-438
tx_clear_cache(t) ==
  /\ Thread(t).pc = "clear_cache"
  /\ transactions_cache' = << >>
  /\ SetThread(t, [Thread(t) EXCEPT !.pc = "done", !.response = "303"])
  /\ UNCHANGED <<bearer_token, vantage_host, skills_cache, review_summary,
                 docskill_summary, last_error, search_attempted, others>>

\* answers of the reporting endpoint
ThreadReviewResponses ==
  { [raises |-> FALSE, status_code |-> 200, text_empty |-> FALSE, rows |-> b] :
      b \in { << >>, << RowReviewed >> } }

\* main.py:447-471: the review report, fetched from the host the global
\* names now, and the loop over items_all
tx_review(t, r) ==
  LET th == Thread(t)
      parsed == fetch_tx_review_and_docskill(r)
      agg == Aggregate(th.items_all, 1, parsed.map, AggregateStart)
  IN
  /\ th.pc = "loop"
  /\ ~LoopCond(th.total_items_fetched, th.total_item_count)
  /\ UNCHANGED <<globals, others>>
  /\ IF vantage_host = NONE \/ r.raises \/ parsed.exc \/ agg.exc
       THEN SetThread(t, [th EXCEPT !.pc = "done", !.response = "500"])
       ELSE SetThread(t, [th EXCEPT !.pc = "commit_cache", !.agg = agg])

\* main.py:473
tx_commit_cache(t) ==
  /\ Thread(t).pc = "commit_cache"
  /\ transactions_cache' = Thread(t).agg.rows
  /\ SetThread(t, [Thread(t) EXCEPT !.pc = "commit_review"])
  /\ UNCHANGED <<bearer_token, vantage_host, skills_cache, review_summary,
                 docskill_summary, last_error, search_attempted, others>>

\* the review_summary a thread has computed
ThreadReviewSummary(t) ==
  [with_manual_review |-> Thread(t).agg.with_mr, straight_through |-> Thread(t).agg.straight]

\* the docskill_summary a thread has computed
ThreadDocskillSummary(t) ==
  LET agg == Thread(t).agg IN
  [k \in (DOMAIN agg.pages_by_docskill) \cup (DOMAIN agg.txcount_by_docskill) |->
     [pages |-> DictGet(agg.pages_by_docskill, k, 0),
      txcount |-> DictGet(agg.txcount_by_docskill, k, 0)]]

\* main.py:474
tx_commit_review(t) ==
  /\ Thread(t).pc = "commit_review"
  /\ review_summary' = ThreadReviewSummary(t)
  /\ SetThread(t, [Thread(t) EXCEPT !.pc = "commit_docskill"])
  /\ UNCHANGED <<bearer_token, vantage_host, skills_cache, transactions_cache,
                 docskill_summary, last_error, search_attempted, others>>

\* main.py:475-480
tx_commit_docskill(t) ==
  /\ Thread(t).pc = "commit_docskill"
  /\ docskill_summary' = ThreadDocskillSummary(t)
  /\ SetThread(t, [Thread(t) EXCEPT !.pc = "done", !.response = "303"])
  /\ UNCHANGED <<bearer_token, vantage_host, skills_cache, transactions_cache,
                 review_summary, last_error, search_attempted, others>>

\* main.py:485-495, logout on a thread: its assignments one at a time
LogoutPcs ==
  << "bearer_token", "vantage_host", "skills_cache", "transactions_cache",
     "review_summary", "docskill_summary", "last_error", "search_attempted" >>

logout_call(t) ==
  /\ Thread(t).op = "none"
  /\ SetThread(t, [ThreadIdle EXCEPT !.op = "logout", !.pc = LogoutPcs[1]])
  /\ UNCHANGED <<globals, others>>

logout_assign(t) ==
  LET th == Thread(t)
      i == CHOOSE j \in 1..Len(LogoutPcs) : LogoutPcs[j] = th.pc
  IN
  /\ th.op = "logout"
  /\ th.pc # "done"
  /\ bearer_token' = IF i = 1 THEN NONE ELSE bearer_token
  /\ vantage_host' = IF i = 2 THEN NONE ELSE vantage_host
  /\ skills_cache' = IF i = 3 THEN << >> ELSE skills_cache
  /\ transactions_cache' = IF i = 4 THEN << >> ELSE transactions_cache
  /\ review_summary' = IF i = 5 THEN ZeroSummary ELSE review_summary
  /\ docskill_summary' = IF i = 6 THEN EmptyDict ELSE docskill_summary
  /\ last_error' = IF i = 7 THEN "" ELSE last_error
  /\ search_attempted' = IF i = 8 THEN FALSE ELSE search_attempted
  /\ SetThread(t, IF i = Len(LogoutPcs)
                    THEN [th EXCEPT !.pc = "done", !.response = "303"]
                    ELSE [th EXCEPT !.pc = LogoutPcs[i + 1]])
  /\ UNCHANGED others

TxCheck == \E t \in ThreadIds : tx_check(t)
TxClearError == \E t \in ThreadIds : tx_clear_error(t)
TxSetup == \E t \in ThreadIds : tx_setup(t)
TxPage == \E t \in ThreadIds : \E r \in ThreadPageResponses : tx_page(t, r)
TxSetError == \E t \in ThreadIds : tx_set_error(t)
TxClearCache == \E t \in ThreadIds : tx_clear_cache(t)
TxReview == \E t \in ThreadIds : \E r \in ThreadReviewResponses : tx_review(t, r)
TxCommitCache == \E t \in ThreadIds : tx_commit_cache(t)
TxCommitReview == \E t \in ThreadIds : tx_commit_review(t)
TxCommitDocskill == \E t \in ThreadIds : tx_commit_docskill(t)
LogoutCall == \E t \in ThreadIds : logout_call(t)
LogoutAssign == \E t \in ThreadIds : logout_assign(t)

\* a login before any of the overlapping requests arrives
LoginFirst == threads = NoThreads /\ Login

NextThreads ==
  \/ LoginFirst
  \/ TxCheck
  \/ TxClearError
  \/ TxSetup
  \/ TxPage
  \/ TxSetError
  \/ TxClearCache
  \/ TxReview
  \/ TxCommitCache
  \/ TxCommitReview
  \/ TxCommitDocskill
  \/ LogoutCall
  \/ LogoutAssign

SpecThreads == Init /\ [][NextThreads]_vars

\* thread t ran POST /transactions to its last assignment
Committed(t) ==
  Thread(t).op = "transactions" /\ Thread(t).pc = "done" /\ Thread(t).agg.rows # << >>

\* C24: when two overlapping POST /transactions have both finished, the
\* cache and the two summaries are those of one of them, and the counts of
\* review_summary add up to the length of the cache.
C24_LastWriteWinsAsAWhole ==
  (Committed(1) /\ Committed(2)) =>
    /\ \E t \in ThreadIds :
         /\ transactions_cache = Thread(t).agg.rows
         /\ review_summary = ThreadReviewSummary(t)
         /\ docskill_summary = ThreadDocskillSummary(t)
    /\ review_summary.with_manual_review + review_summary.straight_through
         = ListLen(transactions_cache)

\* C25: when a logout and a POST /transactions that passed its check have
\* both finished, the session is logged out and the caches are empty.
C25_LogoutWinsOverFetch ==
  \A t, u \in ThreadIds :
    (/\ Thread(t).op = "logout" /\ Thread(t).pc = "done"
     /\ Thread(u).op = "transactions" /\ Thread(u).pc = "done" /\ Thread(u).passed)
    => /\ bearer_token = NONE
       /\ vantage_host = NONE
       /\ transactions_cache = << >>
       /\ review_summary = ZeroSummary
       /\ docskill_summary = EmptyDict

====
